---- MODULE Spec2Model ----
(***************************************************************************)
(* A model of the filecache package (src/filecache.go, lines 1-161, with   *)
(* its options in src/unnamed/part_000): a disk backed cache with a TTL.   *)
(*                                                                         *)
(* Every section the code runs between fc.lock.Lock()/RLock() and the      *)
(* matching Unlock is one action: the RWMutex excludes every interleaving  *)
(* inside it.  Time is a discrete clock `now` that the Tick action         *)
(* advances between any two steps; two readings of time.Now() may agree.   *)
(* The ticker of runCleaner fires at any moment: cleanerInterval is any    *)
(* positive duration.  os.CreateTemp and Write may fail; Seek and ReadAt   *)
(* on a handle that is never closed do not.                                *)
(*                                                                         *)
(* ret is the return made by the step just taken, so a state predicate on  *)
(* ret speaks of the moment a call returns.  puts, stopOverlap, sweeps and  *)
(* spared are history variables: they record what ran and change nothing.  *)
(***************************************************************************)
EXTENDS Integers, Sequences, FiniteSets, TLC

\* ---- bounds of the model ----
MaxTime == 2
MaxTTL == 2
MaxFiles == 2
MaxStarts == 2
MaxLen == 1
\* the timeToLive under which repeated calls of Start are explored
RestartTTL == 1

Threads == {"t1", "t2"}
Keys == {"a", "b"}
Bytes == {7}
Cleaners == 1..MaxStarts

RECURSIVE SeqsUpTo(_)
SeqsUpTo(n) ==
    IF n = 0 THEN {<<>>}
    ELSE LET shorter == SeqsUpTo(n - 1)
         IN  shorter \cup {Append(s, b) : s \in {x \in shorter : Len(x) = n - 1}, b \in Bytes}

Values == SeqsUpTo(MaxLen)

\* ---- time.Time ----
\* the zero time.Time (an absent map entry's expiredAt): before every clock reading
ZeroTime == 0 - 1
Before(a, b) == a < b
After(a, b) == a > b
Add(t, d) == t + d

\* ---- item and the map fc.cache ----
ZeroItem == [expiredAt |-> ZeroTime, file |-> 0]

\* fc.cache[key] with the comma-ok form: the zero item when the key is absent
MapLookup(m, k) ==
    IF k \in DOMAIN m THEN [ok |-> TRUE, item |-> m[k]]
    ELSE [ok |-> FALSE, item |-> ZeroItem]

\* a store that keeps the entry already present
MapStoreKeepOld(m, k, i) ==
    IF k \in DOMAIN m THEN m
    ELSE [x \in DOMAIN m \cup {k} |-> IF x = k THEN i ELSE m[x]]

\* fc.cache[key] = i
MapStore(m, k, i) ==
    [x \in DOMAIN m \cup {k} |-> IF x = k THEN i ELSE m[x]]

\* delete(fc.cache, key)
MapDelete(m, k) == [x \in DOMAIN m \ {k} |-> m[x]]

EmptyMap == [x \in {} |-> ZeroItem]

\* ---- the file system: files[f] is the file behind handle f ----
\* data: its bytes; pos: the handle's offset; linked: its name is in the
\* working directory; open: the handle has not been closed
NewFile == [data |-> <<>>, pos |-> 0, linked |-> TRUE, open |-> TRUE]

\* a write that reports n bytes and leaves the last of them out
FileWriteDropsLast(file, v, n) ==
    LET m == IF n > 0 THEN n - 1 ELSE 0
    IN  [file EXCEPT !.data = SubSeq(file.data, 1, file.pos) \o SubSeq(v, 1, m),
                     !.pos = file.pos + m]

\* the first n bytes of v written at the handle's offset
FileWrite(file, v, n) ==
    LET head == SubSeq(file.data, 1, file.pos)
        tail == SubSeq(file.data, file.pos + n + 1, Len(file.data))
    IN  [file EXCEPT !.data = head \o SubSeq(v, 1, n) \o tail,
                     !.pos = file.pos + n]

\* file.Seek(0, io.SeekEnd): the offset moves to the end, which is the size
FileSeekEnd(file) == [file EXCEPT !.pos = Len(file.data)]

\* a read at the handle's own offset instead of at off
FileReadAtOffset(file, size, off) ==
    LET last == IF file.pos + size <= Len(file.data)
                THEN file.pos + size ELSE Len(file.data)
        got == SubSeq(file.data, file.pos + 1, last)
    IN  [buf |-> got, eof |-> Len(got) < size]

\* file.ReadAt(buf, off) with len(buf) = size: the bytes at off .. off+size-1,
\* io.EOF when the file holds fewer
FileReadAt(file, size, off) ==
    LET last == IF off + size <= Len(file.data) THEN off + size ELSE Len(file.data)
        got == SubSeq(file.data, off + 1, last)
    IN  [buf |-> got, eof |-> Len(got) < size]

\* os.Remove in place of os.RemoveAll: a directory that still holds a file stays
RemoveOnlyIfEmpty(exists, fs) ==
    IF \E f \in DOMAIN fs : fs[f].linked
    THEN [exists |-> exists, files |-> fs]
    ELSE [exists |-> FALSE, files |-> fs]

\* os.RemoveAll(fc.workdir): the directory and every name in it are removed
RemoveAll(exists, fs) ==
    [exists |-> FALSE,
     files |-> [f \in DOMAIN fs |-> [fs[f] EXCEPT !.linked = FALSE]]]

\* ---- results of Get and Put ----
PutOk == [err |-> "nil", val |-> <<>>]
PutIOError == [err |-> "IOError", val |-> <<>>]
GetOk(v) == [err |-> "nil", val |-> v]
GetIOError == [err |-> "IOError", val |-> <<>>]

\* a miss reported as success with no bytes
GetMissNoError == [err |-> "nil", val |-> <<>>]

\* return []byte{}, ErrNotFound
GetMiss == [err |-> "NotFound", val |-> <<>>]

\* the return of a call: ret is the return made by the step just taken
NoReturn == [op |-> "none", key |-> "", err |-> "none", val |-> <<>>]
Returned(o, k, r) == [op |-> o, key |-> k, err |-> r.err, val |-> r.val]

VARIABLES
    now,        \* the clock read by time.Now()
    opts,       \* fc.opts: timeToLive (cleanerInterval is a positive duration)
    workdir,    \* TRUE while the directory fc.workdir exists
    files,      \* files created by os.CreateTemp, by handle
    cache,      \* fc.cache
    pc,         \* where each caller is in Get or Put
    key,        \* the call's key
    item,       \* the call's local item
    ret,        \* the return, if any, of the step just taken
    spc,        \* where Stop is
    starts,     \* number of calls of Start
    cpc,        \* where each cleaner goroutine is
    cnow,       \* cleanExpiredKey's now
    ckeys,      \* cleanExpiredKey's expiredKeys
    puts,       \* history: puts[f] is the Put that created file f
    stopOverlap, \* history: a Get or Put was in flight when Stop was called
    sweeps,     \* history: number of calls of cleanExpiredKey
    spared      \* history: keys the last sweep collected and then left in the map

vars == <<now, opts, workdir, files, cache, pc, key, item, ret,
          spc, starts, cpc, cnow, ckeys, puts, stopOverlap, sweeps, spared>>

callerVars == <<pc, key, item>>
cleanerVars == <<starts, cpc, cnow, ckeys>>
histVars == <<puts, stopOverlap, sweeps, spared>>

InFlight(t) == pc[t] \in {"getLock", "putLock"}

\* the shape of the state: the FileCache, its files, its callers and goroutines
TypeOK ==
    /\ now \in 0..MaxTime
    /\ opts \in [timeToLive : 0..MaxTTL]
    /\ workdir \in BOOLEAN
    /\ Len(files) <= MaxFiles
    /\ \A f \in DOMAIN files :
          /\ files[f].data \in Values
          /\ files[f].pos \in 0..Len(files[f].data)
          /\ files[f].linked \in BOOLEAN
          /\ files[f].open \in BOOLEAN
    /\ DOMAIN cache \subseteq Keys
    /\ \A k \in DOMAIN cache :
          cache[k].file \in DOMAIN files /\ cache[k].expiredAt \in 0..(MaxTime + MaxTTL)
    /\ pc \in [Threads -> {"idle", "getLock", "putLock"}]
    /\ \A t \in Threads :
          IF InFlight(t)
          THEN key[t] \in Keys /\ item[t].file \in DOMAIN files
          ELSE key[t] = "" /\ item[t] = ZeroItem
    /\ ret.op \in {"none", "get", "put"}
    /\ ret.err \in {"none", "nil", "NotFound", "IOError"}
    /\ ret.val \in Values
    /\ spc \in {"idle", "send", "clear", "remove", "done"}
    /\ starts \in 0..MaxStarts
    /\ cpc \in [Cleaners -> {"none", "select", "scan", "delete", "exit"}]
    /\ \A c \in Cleaners : cnow[c] \in 0..MaxTime /\ ckeys[c] \subseteq Keys
    /\ DOMAIN puts = DOMAIN files
    /\ stopOverlap \in BOOLEAN
    /\ sweeps \in 0..MaxStarts
    /\ spared \subseteq Keys

\* ---- history of the Puts ----
\* inst: the position of the Put's store among all stores, 0 before it
\* solo: no other call on the key was in flight at the store, and no Put on the
\*       key has begun since
NewPut(k, v, deadline) ==
    [key |-> k, val |-> v, expiredAt |-> deadline, inst |-> 0, solo |-> FALSE]

\* a Put whose write failed stores nothing: its file has no history
FailedPut == NewPut("", <<>>, ZeroTime)

Stores == {puts[f].inst : f \in DOMAIN puts} \ {0}
NextInst == Cardinality(Stores) + 1

\* the file of the Put on k that stored last, 0 when none has
LastPut(k) ==
    LET done == {f \in DOMAIN puts : puts[f].key = k /\ puts[f].inst > 0}
    IN  IF done = {} THEN 0
        ELSE CHOOSE f \in done : \A g \in done : puts[g].inst <= puts[f].inst

\* ---- New ----
Init ==
    /\ now = 0
    /\ opts \in [timeToLive : 0..MaxTTL]
    /\ workdir = TRUE
    /\ files = <<>>
    /\ cache = EmptyMap
    /\ pc = [t \in Threads |-> "idle"]
    /\ key = [t \in Threads |-> ""]
    /\ item = [t \in Threads |-> ZeroItem]
    /\ ret = NoReturn
    /\ spc = "idle"
    /\ starts = 0
    /\ cpc = [c \in Cleaners |-> "none"]
    /\ cnow = [c \in Cleaners |-> 0]
    /\ ckeys = [c \in Cleaners |-> {}]
    /\ puts = <<>>
    /\ stopOverlap = FALSE
    /\ sweeps = 0
    /\ spared = {}

\* the clock advances
Tick ==
    /\ now < MaxTime
    /\ now' = now + 1
    /\ ret' = NoReturn
    /\ UNCHANGED <<opts, workdir, files, cache, callerVars, spc, cleanerVars, histVars>>

\* ---- Get ----
\* lines 73-79: the lookup under the read lock; a miss returns at once
GetCall(t, k) ==
    /\ pc[t] = "idle"
    /\ spc = "idle"
    /\ LET l == MapLookup(cache, k)
       IN  IF l.ok
           THEN /\ pc' = [pc EXCEPT ![t] = "getLock"]
                /\ key' = [key EXCEPT ![t] = k]
                /\ item' = [item EXCEPT ![t] = l.item]
                /\ ret' = NoReturn
           ELSE /\ ret' = Returned("get", k, GetMiss)
                /\ UNCHANGED <<pc, key, item>>
    /\ UNCHANGED <<now, opts, workdir, files, cache, spc, cleanerVars, histVars>>

\* lines 81-102: under the write lock, on the item copied by the lookup; the
\* new deadline of line 89 goes to that copy, which is dropped on return (so
\* the clock readings of lines 84 and 89 are taken as one)
GetLocked(t) ==
    /\ pc[t] = "getLock"
    /\ IF After(now, item[t].expiredAt)
       THEN /\ cache' = MapDelete(cache, key[t])
            /\ ret' = Returned("get", key[t], GetMiss)
            /\ files' = files
       ELSE LET extended == [item[t] EXCEPT !.expiredAt = Add(now, opts.timeToLive)]
                f == extended.file
                sought == FileSeekEnd(files[f])
                size == sought.pos
                r == FileReadAt(sought, size, 0)
            IN  /\ files' = [files EXCEPT ![f] = sought]
                /\ ret' = Returned("get", key[t], IF r.eof THEN GetIOError ELSE GetOk(r.buf))
                /\ cache' = cache
    /\ pc' = [pc EXCEPT ![t] = "idle"]
    /\ key' = [key EXCEPT ![t] = ""]
    /\ item' = [item EXCEPT ![t] = ZeroItem]
    /\ UNCHANGED <<now, opts, workdir, spc, cleanerVars, histVars>>

\* ---- Put ----
\* a Put that stores its item before the write, so a failed write leaves it stored
PutCallStoresFirst(t, k, v) ==
    /\ pc[t] = "idle"
    /\ spc = "idle"
    /\ Len(files) < MaxFiles
    /\ workdir
    /\ \E n \in 0..Len(v) :
          /\ files' = Append(files, FileWrite(NewFile, v, n))
          /\ puts' = Append(puts, IF n = Len(v)
                                  THEN [NewPut(k, v, Add(now, opts.timeToLive))
                                           EXCEPT !.inst = NextInst]
                                  ELSE FailedPut)
          /\ cache' = MapStore(cache, k, [expiredAt |-> Add(now, opts.timeToLive),
                                         file |-> Len(files) + 1])
          /\ ret' = Returned("put", k, IF n = Len(v) THEN PutOk ELSE PutIOError)
    /\ UNCHANGED <<now, opts, workdir, callerVars, spc, cleanerVars, stopOverlap, sweeps, spared>>

\* lines 107-120: os.CreateTemp, which may fail; the item with its deadline;
\* i.file.Write(value), which may fail after writing n < len(value) bytes.
\* The file is the caller's own until line 123 stores it.
PutCall(t, k, v) ==
    /\ pc[t] = "idle"
    /\ spc = "idle"
    /\ Len(files) < MaxFiles
    /\ \E created \in {workdir, FALSE} :
          IF created
          THEN \E n \in 0..Len(v) :
                 /\ files' = Append(files, FileWrite(NewFile, v, n))
                 /\ puts' = Append([f \in DOMAIN puts |->
                                      IF puts[f].key = k
                                      THEN [puts[f] EXCEPT !.solo = FALSE] ELSE puts[f]],
                                   IF n = Len(v)
                                   THEN NewPut(k, v, Add(now, opts.timeToLive))
                                   ELSE FailedPut)
                 /\ IF n = Len(v)
                    THEN /\ item' = [item EXCEPT ![t] =
                                       [expiredAt |-> Add(now, opts.timeToLive),
                                        file |-> Len(files) + 1]]
                         /\ pc' = [pc EXCEPT ![t] = "putLock"]
                         /\ key' = [key EXCEPT ![t] = k]
                         /\ ret' = NoReturn
                    ELSE /\ ret' = Returned("put", k, PutIOError)
                         /\ UNCHANGED <<pc, key, item>>
          ELSE /\ ret' = Returned("put", k, PutIOError)
               /\ UNCHANGED <<pc, key, item, files, puts>>
    /\ UNCHANGED <<now, opts, workdir, cache, spc, cleanerVars, stopOverlap, sweeps, spared>>

\* lines 122-126: the store under the write lock
PutInstall(t) ==
    /\ pc[t] = "putLock"
    /\ cache' = MapStore(cache, key[t], item[t])
    /\ ret' = Returned("put", key[t], PutOk)
    /\ puts' = [puts EXCEPT ![item[t].file] =
                  [@ EXCEPT !.inst = NextInst,
                            !.solo = \A u \in Threads \ {t} :
                                        ~(InFlight(u) /\ key[u] = key[t])]]
    /\ pc' = [pc EXCEPT ![t] = "idle"]
    /\ key' = [key EXCEPT ![t] = ""]
    /\ item' = [item EXCEPT ![t] = ZeroItem]
    /\ UNCHANGED <<now, opts, workdir, files, spc, cleanerVars, stopOverlap, sweeps, spared>>

\* ---- Start and the cleaner ----
\* line 55: go fc.runCleaner(), at every call of Start
Start ==
    /\ spc = "idle"
    /\ starts < MaxStarts
    /\ starts' = starts + 1
    /\ cpc' = [cpc EXCEPT ![starts + 1] = "select"]
    /\ ret' = NoReturn
    /\ UNCHANGED <<now, opts, workdir, files, cache, callerVars, spc, cnow, ckeys, histVars>>

\* Start called once in the life of the cache
StartOnce == starts = 0 /\ Start

\* lines 134-135 and 143: the ticker fires; cleanExpiredKey reads the clock
CleanerTick(c) ==
    /\ cpc[c] = "select"
    /\ cpc' = [cpc EXCEPT ![c] = "scan"]
    /\ cnow' = [cnow EXCEPT ![c] = now]
    /\ sweeps' = sweeps + 1
    /\ ret' = NoReturn
    /\ UNCHANGED <<now, opts, workdir, files, cache, callerVars, spc, starts, ckeys,
                   puts, stopOverlap, spared>>

\* lines 146-152: the expired keys, collected under the read lock
CleanerScan(c) ==
    /\ cpc[c] = "scan"
    /\ ckeys' = [ckeys EXCEPT ![c] = {k \in DOMAIN cache : Before(cache[k].expiredAt, cnow[c])}]
    /\ cpc' = [cpc EXCEPT ![c] = "delete"]
    /\ ret' = NoReturn
    /\ UNCHANGED <<now, opts, workdir, files, cache, callerVars, spc, starts, cnow, histVars>>

\* a deletion phase that deletes every collected key without looking at it again
CleanerDeleteUnchecked(c) ==
    /\ cpc[c] = "delete"
    /\ cache' = [k \in DOMAIN cache \ ckeys[c] |-> cache[k]]
    /\ spared' = {}
    /\ cpc' = [cpc EXCEPT ![c] = "exit"]
    /\ cnow' = [cnow EXCEPT ![c] = 0]
    /\ ckeys' = [ckeys EXCEPT ![c] = {}]
    /\ ret' = NoReturn
    /\ UNCHANGED <<now, opts, workdir, files, callerVars, spc, starts, puts, stopOverlap, sweeps>>

\* a cleaner in a loop: after its sweep it waits for the next tick
CleanerDeleteLoops(c) ==
    /\ cpc[c] = "delete"
    /\ LET gone == {k \in ckeys[c] : Before(MapLookup(cache, k).item.expiredAt, cnow[c])}
       IN  /\ cache' = [k \in DOMAIN cache \ gone |-> cache[k]]
           /\ spared' = (ckeys[c] \ gone) \cap DOMAIN cache
    /\ cpc' = [cpc EXCEPT ![c] = "select"]
    /\ cnow' = [cnow EXCEPT ![c] = 0]
    /\ ckeys' = [ckeys EXCEPT ![c] = {}]
    /\ ret' = NoReturn
    /\ UNCHANGED <<now, opts, workdir, files, callerVars, spc, starts, puts, stopOverlap, sweeps>>

\* lines 154-160: each collected key is checked again and deleted; runCleaner returns
CleanerDelete(c) ==
    /\ cpc[c] = "delete"
    /\ LET gone == {k \in ckeys[c] : Before(MapLookup(cache, k).item.expiredAt, cnow[c])}
       IN  /\ cache' = [k \in DOMAIN cache \ gone |-> cache[k]]
           /\ spared' = (ckeys[c] \ gone) \cap DOMAIN cache
    /\ cpc' = [cpc EXCEPT ![c] = "exit"]
    /\ cnow' = [cnow EXCEPT ![c] = 0]
    /\ ckeys' = [ckeys EXCEPT ![c] = {}]
    /\ ret' = NoReturn
    /\ UNCHANGED <<now, opts, workdir, files, callerVars, spc, starts, puts, stopOverlap, sweeps>>

\* ---- Stop ----
\* line 59: Stop is called, once, and no function is called after it
StopCall ==
    /\ spc = "idle"
    /\ spc' = "send"
    /\ stopOverlap' = \E t \in Threads : InFlight(t)
    /\ ret' = NoReturn
    /\ UNCHANGED <<now, opts, workdir, files, cache, callerVars, cleanerVars, puts, sweeps, spared>>

\* a cleaner that takes the stop signal and then sweeps all the same
StopSendThenSweep(c) ==
    /\ spc = "send"
    /\ cpc[c] = "select"
    /\ spc' = "clear"
    /\ cpc' = [cpc EXCEPT ![c] = "scan"]
    /\ cnow' = [cnow EXCEPT ![c] = now]
    /\ sweeps' = sweeps + 1
    /\ ret' = NoReturn
    /\ UNCHANGED <<now, opts, workdir, files, cache, callerVars, starts, ckeys,
                   puts, stopOverlap, spared>>

\* lines 60 and 137-138: the send on the unbuffered channel meets a cleaner's receive
StopSend(c) ==
    /\ spc = "send"
    /\ cpc[c] = "select"
    /\ spc' = "clear"
    /\ cpc' = [cpc EXCEPT ![c] = "exit"]
    /\ ret' = NoReturn
    /\ UNCHANGED <<now, opts, workdir, files, cache, callerVars, starts, cnow, ckeys, histVars>>

\* lines 62-66: every key is deleted under the write lock
StopClear ==
    /\ spc = "clear"
    /\ cache' = EmptyMap
    /\ spc' = "remove"
    /\ ret' = NoReturn
    /\ UNCHANGED <<now, opts, workdir, files, callerVars, cleanerVars, histVars>>

\* line 68: the directory is removed and Stop returns
StopRemove ==
    /\ spc = "remove"
    /\ LET r == RemoveAll(workdir, files)
       IN  /\ workdir' = r.exists
           /\ files' = r.files
    /\ spc' = "done"
    /\ ret' = NoReturn
    /\ UNCHANGED <<now, opts, cache, callerVars, cleanerVars, histVars>>

Next ==
    \/ Tick
    \/ \E t \in Threads, k \in Keys : GetCall(t, k)
    \/ \E t \in Threads : GetLocked(t)
    \/ \E t \in Threads, k \in Keys, v \in Values : PutCall(t, k, v)
    \/ \E t \in Threads : PutInstall(t)
    \/ StartOnce
    \/ \E c \in Cleaners : CleanerTick(c)
    \/ \E c \in Cleaners : CleanerScan(c)
    \/ \E c \in Cleaners : CleanerDelete(c)
    \/ StopCall
    \/ \E c \in Cleaners : StopSend(c)
    \/ StopClear
    \/ StopRemove

Spec == Init /\ [][Next]_vars

\* the goroutines are scheduled fairly: a step that stays possible is taken
Fairness ==
    /\ WF_vars(StopClear)
    /\ WF_vars(StopRemove)
    /\ \A c \in Cleaners :
          /\ WF_vars(StopSend(c))
          /\ WF_vars(CleanerTick(c))
          /\ WF_vars(CleanerScan(c))
          /\ WF_vars(CleanerDelete(c))
    /\ \A t \in Threads : WF_vars(GetLocked(t)) /\ WF_vars(PutInstall(t))

FairSpec == Init /\ [][Next]_vars /\ Fairness

\* a client that calls Start again and again, under one timeToLive
InitRestart == Init /\ opts.timeToLive = RestartTTL
NextRestart == Next \/ Start
SpecRestart == InitRestart /\ [][NextRestart]_vars

\* ---- what the claims speak of ----
\* the Puts on k that stored, and those that stored at position s or later
Stored(k) == {f \in DOMAIN puts : puts[f].key = k /\ puts[f].inst > 0}
StoredSince(k, s) == {f \in Stored(k) : puts[f].inst >= s}

\* the step just taken returned from Get(k); the last store on k was made with
\* no other call on k in flight, no Put on k has begun since, the clock is
\* short of that store's deadline, and Stop has not been called
GetAfterPut(k) ==
    /\ spc = "idle"
    /\ ret.op = "get"
    /\ ret.key = k
    /\ LastPut(k) # 0
    /\ puts[LastPut(k)].solo
    /\ now < puts[LastPut(k)].expiredAt

\* the map holds the last store of each of its keys
CacheHoldsLastPut == \A k \in DOMAIN cache : cache[k].file = LastPut(k)

\* C1: round trip. With timeToLive > 0, a Get(k) that follows a Put(k, v) which
\* returned nil, with no other call on k in between and before the deadline,
\* returns nil and exactly the bytes v.
C1_RoundTrip ==
    \A k \in Keys :
        (opts.timeToLive > 0 /\ GetAfterPut(k))
            => (ret.err = "nil" /\ ret.val = puts[LastPut(k)].val)

C1_Witness ==
    \E k \in Keys :
        /\ opts.timeToLive > 0
        /\ GetAfterPut(k)
        /\ ret.err = "nil"
        /\ Len(ret.val) > 0

\* C2: Stop never blocks forever. Once Stop is called it returns, whatever the
\* cleaner is doing and whether or not Start was called.
C2_StopReturns == (spc = "send") ~> (spc = "done")

\* C3: expiry on read. A Get(k) that takes the write lock while the entry of k
\* has now >= expiredAt, the boundary included, returns NotFound and leaves k
\* out of the map (so with timeToLive = 0 a Get after a Put never returns v).
C3_ExpiryOnRead ==
    [][\A t \in Threads :
          (/\ pc[t] = "getLock"
           /\ pc'[t] = "idle"
           /\ key[t] \in DOMAIN cache
           /\ now >= cache[key[t]].expiredAt)
              => (ret'.err = "NotFound" /\ key[t] \notin DOMAIN cache')]_vars

\* C4: sliding TTL. A Get(k) that returns a value at time t leaves the entry of
\* k in the map with expiredAt = t + timeToLive.
C4_SlidingTTL ==
    (ret.op = "get" /\ ret.err = "nil")
        => (/\ ret.key \in DOMAIN cache
            /\ cache[ret.key].expiredAt = Add(now, opts.timeToLive))

\* C5: last write wins. With timeToLive > 0, after Put(k, v1) and then
\* Put(k, v2), a Get(k) before the deadline returns v2, and the map holds one
\* entry for k, that of the second Put.
C5_LastWriteWins ==
    \A k \in Keys :
        (/\ opts.timeToLive > 0
         /\ GetAfterPut(k)
         /\ \E g \in Stored(k) : g # LastPut(k))
            => (/\ ret.err = "nil"
                /\ ret.val = puts[LastPut(k)].val
                /\ k \in DOMAIN cache
                /\ cache[k].file = LastPut(k))

C5_Witness ==
    \E k \in Keys :
        /\ opts.timeToLive > 0
        /\ GetAfterPut(k)
        /\ \E g \in Stored(k) : puts[g].val # puts[LastPut(k)].val
        /\ ret.val = puts[LastPut(k)].val

\* C6: replacement reclaims the old file. When a store replaces the entry of a
\* key, the replaced entry's file is closed and its name is removed from the
\* working directory.
C6_ReplaceReclaims ==
    [][\A k \in Keys :
          (/\ k \in DOMAIN cache
           /\ k \in DOMAIN cache'
           /\ cache'[k].file # cache[k].file)
              => (/\ ~files'[cache[k].file].linked
                  /\ ~files'[cache[k].file].open)]_vars

\* C7: teardown. When Stop has returned, no Get or Put having been in flight,
\* the working directory and every file in it are gone and the map is empty.
C7_Teardown ==
    (spc = "done" /\ ~stopOverlap)
        => (/\ cache = EmptyMap
            /\ ~workdir
            /\ \A f \in DOMAIN files : ~files[f].linked)

C7_Witness ==
    /\ spc = "done"
    /\ ~stopOverlap
    /\ starts > 0
    /\ \E f \in DOMAIN puts : puts[f].inst > 0

\* C8: linearizable per key. A Get(k) that begins after a Put(k, v) has
\* returned, no store on k from that one on being expired, returns the value of
\* that Put or of a later one: never NotFound, never an earlier value.
C8_Linearizable ==
    [][ret'.op = "get" =>
          LET k == ret'.key
              s == IF pc' = pc
                   THEN IF LastPut(k) = 0 THEN 0 ELSE puts[LastPut(k)].inst
                   ELSE LET t == CHOOSE u \in Threads : pc[u] # pc'[u]
                        IN  puts[item[t].file].inst
          IN  (s > 0 /\ \A g \in StoredSince(k, s) : now < puts[g].expiredAt)
                 => (/\ ret'.err = "nil"
                     /\ \E g \in StoredSince(k, s) : ret'.val = puts[g].val)]_vars

\* C9: concurrency safety. Under every interleaving of Put and Get, a key whose
\* last completed Put is unexpired is in the map, no key is in the map that was
\* never Put, and a value returned by Get(k) is one that was Put under k.
C9_ConcurrencySafety ==
    /\ spc = "idle" =>
          \A k \in Keys :
              (LastPut(k) # 0 /\ now < puts[LastPut(k)].expiredAt) => k \in DOMAIN cache
    /\ \A k \in DOMAIN cache : LastPut(k) # 0
    /\ (ret.op = "get" /\ ret.err = "nil")
          => \E f \in DOMAIN puts : puts[f].key = ret.key /\ puts[f].val = ret.val

\* C10: miss. A Get(k) on a key that was never Put (no Put on k has written a
\* file, stored or not) returns NotFound and no bytes, and leaves the map as
\* it was.
C10_Miss ==
    [][(ret'.op = "get" /\ \A f \in DOMAIN puts : puts[f].key # ret'.key)
          => (/\ ret'.err = "NotFound"
              /\ ret'.val = <<>>
              /\ cache' = cache)]_vars

C10_Witness ==
    /\ ret.op = "get"
    /\ \A f \in DOMAIN puts : puts[f].key # ret.key
    /\ ret.err = "NotFound"
    /\ cache # EmptyMap

\* C11: a failed Put is a no-op on the index. A Put(k, v) that returns an I/O
\* error leaves the map as it was and every file already written untouched, so
\* a prior entry of k keeps its deadline, its file and its bytes.
C11_FailedPutNoOp ==
    [][(ret'.op = "put" /\ ret'.err = "IOError")
          => (/\ cache' = cache
              /\ \A f \in DOMAIN files : files'[f] = files[f])]_vars

C11_Witness ==
    /\ ret.op = "put"
    /\ ret.err = "IOError"
    /\ ret.key \in DOMAIN cache
    /\ Len(files[cache[ret.key].file].data) > 0
    /\ Len(files) = MaxFiles
    /\ files[Len(files)].data = <<>>

\* cleaner c ends a sweep that ran alone: no Get, Put or Stop is in progress,
\* no other cleaner is sweeping, and the map is as the sweep's scan saw it
SweepAlone(c) ==
    /\ cpc[c] = "delete"
    /\ cpc'[c] = "exit"
    /\ spc = "idle"
    /\ \A t \in Threads : pc[t] = "idle"
    /\ \A d \in Cleaners \ {c} : cpc[d] \notin {"scan", "delete"}
    /\ ckeys[c] = {k \in DOMAIN cache : Before(cache[k].expiredAt, cnow[c])}

\* C12: a sweep removes the expired entries. A sweep run alone leaves no entry
\* whose deadline is before its clock reading, and with timeToLive = 0 a sweep
\* that reads the clock after the Puts returned leaves the map empty.
C12_SweepRemovesExpired ==
    [][\A c \in Cleaners :
          SweepAlone(c) =>
              /\ \A k \in DOMAIN cache' : ~Before(cache'[k].expiredAt, cnow[c])
              /\ (/\ opts.timeToLive = 0
                  /\ \A k \in DOMAIN cache : cache[k].expiredAt <= cnow[c])
                     => cache' = EmptyMap]_vars

\* the cleaner goroutines that have not returned
LiveCleaners == {c \in Cleaners : cpc[c] \in {"select", "scan", "delete"}}

\* C13: Start is idempotent. However often Start is called, at most one cleaner
\* goroutine exists at a time, and when the one Stop has returned no cleaner
\* goroutine is left that runs or can sweep.
C13_StartIdempotent ==
    /\ Cardinality(LiveCleaners) <= 1
    /\ spc = "done" => LiveCleaners = {}

\* C14: Get re-validates its snapshot. When Get(k) takes the write lock and the
\* entry of k is no longer the one its lookup saw but a newer one that is
\* unexpired, Get leaves that entry in the map as it is.
C14_GetRevalidates ==
    [][\A t \in Threads :
          (/\ pc[t] = "getLock"
           /\ pc'[t] = "idle"
           /\ key[t] \in DOMAIN cache
           /\ cache[key[t]].file # item[t].file
           /\ now < cache[key[t]].expiredAt)
              => (/\ key[t] \in DOMAIN cache'
                  /\ cache'[key[t]] = cache[key[t]])]_vars

\* the map holds an entry of k whose deadline is before the clock
Expired(k) == k \in DOMAIN cache /\ Before(cache[k].expiredAt, now)

\* C15: the cleaner repeats. After Start and until Stop is called, an entry
\* that is expired is in the end removed from the map (or replaced), with or
\* without a Get on its key.
C15_CleanerRepeats ==
    \A k \in Keys :
        (starts > 0 /\ spc = "idle" /\ Expired(k)) ~> (spc # "idle" \/ ~Expired(k))

\* C16: a sweep preserves the live entries. The deletion phase of a sweep
\* removes a key only when the entry the map holds at that moment has its
\* deadline before the sweep's clock reading; every other entry, one stored by
\* a Put since the collection included, stays as it is.
C16_SweepPreservesLive ==
    [][\A c \in Cleaners :
          (cpc[c] = "delete" /\ cpc'[c] = "exit")
              => \A k \in DOMAIN cache :
                    IF Before(cache[k].expiredAt, cnow[c])
                    THEN k \in DOMAIN cache' => cache'[k] = cache[k]
                    ELSE k \in DOMAIN cache' /\ cache'[k] = cache[k]]_vars

\* a sweep has ended that had collected a key and left it: the entry of that
\* key is one stored after the collection, with its deadline ahead
C16_Witness ==
    \E k \in spared :
        /\ k \in DOMAIN cache
        /\ now < cache[k].expiredAt
        /\ \E g \in Stored(k) : puts[g].inst < puts[cache[k].file].inst

\* C17: the index invariant. Until Stop is called, every key in the map has the
\* entry of the last Put stored for it, and that entry's file is in the working
\* directory and holds exactly the bytes of that Put.
C17_IndexInvariant ==
    spc = "idle" =>
        \A k \in DOMAIN cache :
            LET f == cache[k].file
            IN  /\ f = LastPut(k)
                /\ workdir
                /\ files[f].linked
                /\ files[f].data = puts[f].val

\* a key whose entry replaced another one, of other bytes, and has been read
C17_Witness ==
    /\ spc = "idle"
    /\ \E k \in DOMAIN cache :
          /\ Len(files[cache[k].file].data) > 0
          /\ files[cache[k].file].pos > 0
          /\ \E g \in Stored(k) : puts[g].val # puts[cache[k].file].val
          /\ sweeps > 0

\* C18: no file outlives its entry. When a step takes an entry out of the map
\* (the expiry path of Get, a sweep, or the clearing by Stop) the entry's
\* handle is closed, and unless the step is Stop's the file's name is removed.
C18_EvictionReleases ==
    [][\A k \in DOMAIN cache :
          k \notin DOMAIN cache'
              => (/\ ~files'[cache[k].file].open
                  /\ spc' = spc => ~files'[cache[k].file].linked)]_vars

\* C19: Stop cancels the cleaner without a sweep. With Start called once, from
\* the moment the cleaner has taken the stop signal, and so for ever after Stop
\* has returned, the cleaner has returned and no sweep has run or runs.
C19_StopCancelsCleaner ==
    spc \in {"clear", "remove", "done"} => (sweeps = 0 /\ LiveCleaners = {})

\* Stop has returned after a Start, with an entry past its deadline never swept
C19_Witness ==
    /\ spc = "done"
    /\ starts > 0
    /\ sweeps = 0
    /\ \E f \in DOMAIN puts : puts[f].inst > 0 /\ Before(puts[f].expiredAt, now)

\* the steps of runCleaner: it starts in its select, and from there it returns
\* on the stop signal or makes one sweep and returns
CleanerSteps ==
    {<<"none", "select">>, <<"select", "exit">>, <<"select", "scan">>,
     <<"scan", "delete">>, <<"delete", "exit">>}

====
